---- MODULE Spec2Model ----
(***************************************************************************)
(* The notes service of app/routers/notes.py: five request handlers over   *)
(* one table (app/notes/models.py), with the request bodies validated by   *)
(* the pydantic schemas of app/notes/schemas.py before a handler runs.     *)
(*                                                                         *)
(* A string is a sequence of one-character strings.  An Optional value is  *)
(* a set: {} is None and {v} is the value v.  A request body is the pair   *)
(* pydantic keeps: the keys that were supplied (model_fields_set) and the  *)
(* value of every key.                                                     *)
(*                                                                         *)
(* The handlers are plain `def`s: the framework runs each request in a     *)
(* worker thread with a session of its own, and every statement a handler  *)
(* sends to the database (a SELECT, an INSERT / UPDATE / DELETE with its   *)
(* commit, the SELECT of db.refresh) is one step; the statements of other  *)
(* requests may come between two statements of a handler.                  *)
(***************************************************************************)
EXTENDS Integers, Sequences, FiniteSets, Bags, TLC

VARIABLES
    notes,      \* the rows of table "notes"
    inserted,   \* history: the number of notes inserted so far
    issued,     \* history: every id the storage assigned to an inserted note
    gone,       \* history: every id a delete_note has answered 204 for
    reissued,   \* history: the deleted ids a create_note has given to a new note since
    stale,      \* history: the commit of an update_note has found its row deleted
    inflight    \* the requests between two of their statements (a bag)

vars == <<notes, inserted, issued, gone, reissued, stale, inflight>>

----------------------------------------------------------------------------
(* Bounds of the model.                                                    *)

MaxNotes == 2
MaxDay == 2
MaxInflight == 2

(* Program constants.                                                      *)

MaxTitleLen == 200
MaxOwnerLen == 100

----------------------------------------------------------------------------
(* Optional values and strings.                                            *)

None == {}

Some(v) == {v}

Val(o) == CHOOSE v \in o : TRUE

Rep(c, n) == [i \in 1..n |-> c]

Lower(c) ==
    CASE c = "A" -> "a"
      [] c = "B" -> "b"
      [] c = "C" -> "c"
      [] OTHER -> c

(* Python truthiness of an Optional[str] / Optional[date] query parameter: *)
(* None and the empty string are falsy, every date is truthy.              *)
TruthyStr(o) == o # None /\ Val(o) # <<>>

TruthyDate(o) == o # None

----------------------------------------------------------------------------
(* The table.                                                              *)

StrCols == {"title", "text", "owner"}

Cols == StrCols \cup {"created_at"}

Ids(rows) == {r.id : r \in rows}

Max(S) == CHOOSE x \in S : \A y \in S : y <= x

(* id: Mapped[int] = mapped_column(primary_key=True): an INTEGER PRIMARY    *)
(* KEY with no AUTOINCREMENT and no sequence.  A row inserted without a    *)
(* key is given one more than the largest key in the table, so the key of  *)
(* a deleted row is given again when no larger key is left.                *)
PrimaryKey(rows) == IF rows = {} THEN 1 ELSE Max(Ids(rows)) + 1

Dates == 1..MaxDay

(* NoteDB: every column is Mapped[...] without Optional, hence NOT NULL.   *)
NoteDB(row) == \A c \in Cols : row[c] # None

(* A lookup that lost its where clause: the first row of the table.       *)
FirstOfAll(rows, id) ==
    IF rows = {} THEN None ELSE Some(CHOOSE r \in rows : TRUE)

(* db.query(NoteDB).where(NoteDB.id == id).first()                         *)
First(rows, id) ==
    LET hit == {r \in rows : r.id = id}
    IN  IF hit = {} THEN None ELSE Some(CHOOSE r \in hit : TRUE)

----------------------------------------------------------------------------
(* app/notes/schemas.py.  A body is [set |-> the keys supplied, val |-> the *)
(* value of each key]; a key that was not supplied takes its default.      *)

(* Field(None, ...): the value of an Optional field of the parsed model.   *)
Attr(body, f) == IF f \in body.set THEN body.val[f] ELSE None

(* min_length=1, max_length=200 (title), max_length=100 (owner).           *)
StrOk(f, s) ==
    /\ Len(s) >= 1
    /\ f = "title" => Len(s) <= MaxTitleLen
    /\ f = "owner" => Len(s) <= MaxOwnerLen

(* NoteCreate accepts the body: title, text and owner are required str.    *)
NoteCreate(body) ==
    \A f \in StrCols :
        /\ f \in body.set
        /\ body.val[f] # None
        /\ StrOk(f, Val(body.val[f]))

(* An update schema without min_length.                                    *)
NoteUpdateNoMin(body) ==
    \A f \in StrCols \cap body.set :
        body.val[f] = None \/ Len(Val(body.val[f])) <= MaxTitleLen

(* NoteUpdate accepts the body: every field Optional, a supplied string    *)
(* is length-checked, a supplied null is accepted.                         *)
NoteUpdate(body) ==
    \A f \in StrCols \cap body.set :
        body.val[f] = None \/ StrOk(f, Val(body.val[f]))

(* data.model_dump(exclude_unset=True): the keys supplied, among the       *)
(* model's fields (pydantic ignores a key the model does not declare).     *)

ModelDump(body) == body.set \cap Cols

----------------------------------------------------------------------------
(* The ORM session.                                                        *)

AllCols == Cols \cup {"id"}

(* The columns whose value the handler changed since the row was loaded.   *)
Dirty(snap, obj) == {c \in AllCols : obj[c] # snap[c]}

(* A commit that writes every column of the object, the ones it only       *)
(* loaded included.                                                        *)
FlushWholeRow(rows, snap, obj) ==
    LET cur == First(rows, snap.id)
    IN  IF Dirty(snap, obj) = {} THEN [ok |-> TRUE, notes |-> rows]
        ELSE IF cur = None THEN [ok |-> FALSE, notes |-> rows]
        ELSE IF ~NoteDB(obj) \/ obj.id \in Ids(rows \ cur)
             THEN [ok |-> FALSE, notes |-> rows]
             ELSE [ok |-> TRUE, notes |-> (rows \ cur) \cup {obj}]

(* A commit whose UPDATE has no WHERE clause.                              *)
FlushEveryRow(rows, snap, obj) ==
    LET dirty == Dirty(snap, obj)
    IN  IF dirty = {} THEN [ok |-> TRUE, notes |-> rows]
        ELSE IF First(rows, snap.id) = None THEN [ok |-> FALSE, notes |-> rows]
        ELSE IF \E c \in dirty : obj[c] = None THEN [ok |-> FALSE, notes |-> rows]
        ELSE [ok |-> TRUE,
              notes |-> {[c \in AllCols |->
                            IF c \in dirty \ {"id"} THEN obj[c] ELSE r[c]] :
                         r \in rows}]

(* A commit into a table whose columns are nullable.                       *)
FlushNullable(rows, snap, obj) ==
    LET dirty == Dirty(snap, obj)
        cur == First(rows, snap.id)
    IN  IF dirty = {} THEN [ok |-> TRUE, notes |-> rows]
        ELSE IF cur = None THEN [ok |-> FALSE, notes |-> rows]
        ELSE LET new == [c \in AllCols |->
                            IF c \in dirty THEN obj[c] ELSE Val(cur)[c]]
             IN  [ok |-> TRUE, notes |-> (rows \ cur) \cup {new}]

(* db.commit() of a loaded row `snap` whose attributes now read `obj`:     *)
(* UPDATE notes SET <dirty columns> WHERE id = snap.id.  No row matched    *)
(* raises StaleDataError, a NULL in a NOT NULL column or a duplicate key   *)
(* raises IntegrityError; both roll back.                                  *)
Flush(rows, snap, obj) ==
    LET dirty == Dirty(snap, obj)
        cur == First(rows, snap.id)
    IN  IF dirty = {} THEN [ok |-> TRUE, notes |-> rows]
        ELSE IF cur = None THEN [ok |-> FALSE, notes |-> rows]
        ELSE LET new == [c \in AllCols |->
                            IF c \in dirty THEN obj[c] ELSE Val(cur)[c]]
             IN  IF ~NoteDB(new) \/ new.id \in Ids(rows \ cur)
                 THEN [ok |-> FALSE, notes |-> rows]
                 ELSE [ok |-> TRUE, notes |-> (rows \ cur) \cup {new}]

----------------------------------------------------------------------------
(* app/routers/notes.py.  A result: the table, the HTTP status and the     *)
(* rows of the response body.                                              *)

Result(rows, status, body) == [notes |-> rows, status |-> status, body |-> body]

(* created_at = data.created_at or date.today()                            *)
CreatedAt(data, today) ==
    IF TruthyDate(Attr(data, "created_at"))
    THEN Attr(data, "created_at") ELSE Some(today)

(* note = NoteDB(title=..., text=..., owner=..., created_at=...)            *)
NewNote(newId, data, today) ==
    [id |-> newId,
     title |-> data.val.title,
     text |-> data.val.text,
     owner |-> data.val.owner,
     created_at |-> CreatedAt(data, today)]

(* db.add(note); db.commit(): INSERT INTO notes.  A NULL in a NOT NULL     *)
(* column or a duplicate key raises IntegrityError and rolls back.         *)
Insert(rows, note) ==
    IF ~NoteDB(note) \/ note.id \in Ids(rows)
    THEN [ok |-> FALSE, notes |-> rows]
    ELSE [ok |-> TRUE, notes |-> rows \cup {note}]

get_note(rows, id) ==
    LET note == First(rows, id)
    IN  IF note = None THEN Result(rows, 404, {}) ELSE Result(rows, 200, note)

(* for field, value in update_data.items(): setattr(note, field, value)    *)
SetAttrs(note, data) ==
    [c \in AllCols |-> IF c \in ModelDump(data)
                       THEN data.val[c] ELSE note[c]]

(* db.refresh(note); return note                                           *)
Refresh(rows, id) ==
    LET note == First(rows, id)
    IN  IF note = None THEN Result(rows, 500, {}) ELSE Result(rows, 200, note)

(* create_note after its commit: db.refresh(note); return note, with the   *)
(* route's status_code 201.  The refresh of a row that is no longer there  *)
(* raises InvalidRequestError.                                             *)
Created(rows, id) ==
    LET r == Refresh(rows, id)
    IN  IF r.status = 200 THEN Result(rows, 201, r.body) ELSE r

(* create_note when no statement of another request comes between its      *)
(* commit and its refresh.                                                 *)
create_note(rows, newId, data, today) ==
    IF ~NoteCreate(data) THEN Result(rows, 422, {})
    ELSE LET done == Insert(rows, NewNote(newId, data, today))
         IN  IF ~done.ok THEN Result(rows, 500, {})
             ELSE Created(done.notes, newId)

(* update_note when no statement of another request comes between its      *)
(* lookup, its commit and its refresh.                                     *)
update_note(rows, id, data) ==
    IF ~NoteUpdate(data) THEN Result(rows, 422, {})
    ELSE LET note == First(rows, id)
         IN  IF note = None THEN Result(rows, 404, {})
             ELSE LET obj == SetAttrs(Val(note), data)
                      done == Flush(rows, Val(note), obj)
                  IN  IF ~done.ok THEN Result(rows, 500, {})
                      ELSE Refresh(done.notes, obj.id)

(* db.delete(note); db.commit(): DELETE FROM notes WHERE id = note.id      *)

DeleteRow(rows, id) == {r \in rows : r.id # id}

(* delete_note when no statement of another request comes between its      *)
(* lookup and its commit.                                                  *)
delete_note(rows, id) ==
    LET note == First(rows, id)
    IN  IF note = None THEN Result(rows, 404, {})
        ELSE Result(DeleteRow(rows, Val(note).id), 204, {})

----------------------------------------------------------------------------
(* get_all_notes.                                                          *)

(* SQL LIKE of string s against pattern p, compared case-insensitively     *)
(* (ILIKE): "%" matches any run of characters, "_" any one character.      *)
RECURSIVE Like(_, _)
Like(s, p) ==
    IF p = <<>> THEN s = <<>>
    ELSE IF Head(p) = "%"
         THEN Like(s, Tail(p)) \/ (s # <<>> /\ Like(Tail(s), p))
         ELSE /\ s # <<>>
              /\ Head(p) = "_" \/ Lower(Head(s)) = Lower(Head(p))
              /\ Like(Tail(s), Tail(p))

(* NoteDB.<col>.ilike(f"%{search}%")                                       *)
ILike(s, search) == Like(s, <<"%">> \o search \o <<"%">>)

(* The filters list: an entry is None (skipped) when its parameter is      *)
(* falsy.                                                                  *)
OwnerFilter(r, owner) == TruthyStr(owner) => r.owner = owner

SearchFilter(r, search) ==
    TruthyStr(search) =>
        ILike(Val(r.title), Val(search)) \/ ILike(Val(r.text), Val(search))

DateFromFilter(r, date_from) ==
    TruthyDate(date_from) => Val(r.created_at) >= Val(date_from)

DateToFilter(r, date_to) ==
    TruthyDate(date_to) => Val(r.created_at) <= Val(date_to)

get_all_notes(rows, q) ==
    Result(rows, 200,
           {r \in rows : /\ OwnerFilter(r, q.owner)
                         /\ SearchFilter(r, q.search)
                         /\ DateFromFilter(r, q.date_from)
                         /\ DateToFilter(r, q.date_to)})

----------------------------------------------------------------------------
(* The requests the model sends.                                           *)

Titles == {<<"A", "b">>, <<"c">>}

Texts == {<<"b">>, <<"_">>}

Owners == {<<"A">>, <<"a">>}

Body(set, t, x, o, d, i) ==
    [set |-> set,
     val |-> [title |-> t, text |-> x, owner |-> o, created_at |-> d, id |-> i]]

OptDates == {None} \cup {Some(d) : d \in Dates}

ValidCreates ==
    {Body(Cols, Some(t), Some(x), Some(o), d, 0) :
        t \in Titles, x \in Texts, o \in Owners, d \in OptDates}
    \cup {Body(StrCols, Some(t), Some(x), Some(o), None, 0) :
            t \in Titles, x \in Texts, o \in Owners}

InvalidCreates ==
    LET t == Some(<<"c">>)
        x == Some(<<"b">>)
        o == Some(<<"a">>)
    IN  { Body(StrCols, Some(<<>>), x, o, None, 0),
          Body(StrCols, Some(Rep("a", MaxTitleLen + 1)), x, o, None, 0),
          Body(StrCols, t, Some(<<>>), o, None, 0),
          Body(StrCols, t, x, Some(<<>>), None, 0),
          Body(StrCols, t, x, Some(Rep("a", MaxOwnerLen + 1)), None, 0),
          Body(Cols \ {"title"}, None, x, o, Some(1), 0),
          Body(Cols \ {"owner"}, t, x, None, Some(1), 0),
          Body(StrCols, None, x, o, None, 0),
          Body(StrCols, t, None, o, None, 0) }

CreateInputs == ValidCreates \cup InvalidCreates

(* Updates: any subset of the fields, all set to their first or all to     *)
(* their second value; a null for one field; an extra "id" key.            *)
Pick(b) ==
    IF b = 1
    THEN [title |-> Some(<<"A", "b">>), text |-> Some(<<"b">>),
          owner |-> Some(<<"A">>), created_at |-> Some(1)]
    ELSE [title |-> Some(<<"c">>), text |-> Some(<<"_">>),
          owner |-> Some(<<"a">>), created_at |-> Some(MaxDay)]

Partial(F, v) ==
    [set |-> F,
     val |-> [c \in AllCols |-> IF c = "id" THEN 0
                                ELSE IF c \in F THEN v[c] ELSE None]]

PlainUpdates == {Partial(F, Pick(b)) : F \in SUBSET Cols, b \in {1, 2}}

NullUpdates ==
    {Partial({c}, [f \in Cols |-> None]) : c \in Cols}
    \cup {Partial({"title", "owner"}, [Pick(2) EXCEPT !.title = None])}

ExtraIdUpdates ==
    {[set |-> F \cup {"id"},
      val |-> [Partial(F, Pick(2)).val EXCEPT !.id = i]] :
        F \in {{}, {"title"}}, i \in 1..MaxNotes}

InvalidUpdates ==
    { Partial({"title"}, [Pick(1) EXCEPT !.title = Some(<<>>)]),
      Partial({"title", "text"},
              [Pick(1) EXCEPT !.title = Some(Rep("a", MaxTitleLen + 1))]),
      Partial({"text"}, [Pick(1) EXCEPT !.text = Some(<<>>)]),
      Partial({"owner"}, [Pick(1) EXCEPT !.owner = Some(<<>>)]),
      Partial({"owner", "created_at"},
              [Pick(1) EXCEPT !.owner = Some(Rep("a", MaxOwnerLen + 1))]) }

UpdateInputs ==
    PlainUpdates \cup NullUpdates \cup ExtraIdUpdates \cup InvalidUpdates

RequestIds == 0..(MaxNotes + 1)

Queries ==
    [owner : {None, Some(<<>>), Some(<<"A">>), Some(<<"a">>)},
     search : {None, Some(<<>>), Some(<<"a">>), Some(<<"B">>), Some(<<"_">>)},
     date_from : {None, Some(1), Some(MaxDay)},
     date_to : {None, Some(1), Some(MaxDay)}]

----------------------------------------------------------------------------
(* The requests the service is sent while it runs: a few of the bodies     *)
(* above, so that the requests in flight stay few.                         *)

SentCreates ==
    { Body(Cols, Some(<<"A", "b">>), Some(<<"b">>), Some(<<"A">>), Some(1), 0),
      Body(StrCols, Some(<<>>), Some(<<"b">>), Some(<<"a">>), None, 0) }

SentUpdates ==
    { Partial({"title"}, Pick(2)),
      Partial({"owner"}, Pick(2)),
      Partial({"title"}, [Pick(1) EXCEPT !.title = Some(<<>>)]) }

SentQueries ==
    {q \in Queries : /\ q.owner = None /\ q.date_from = None /\ q.date_to = None
                     /\ q.search \in {None, Some(<<"_">>)}}

NoData == Partial({}, Pick(1))

(* What a request keeps between two statements: an update the row it       *)
(* loaded and its body until it commits; afterwards, and for a create or   *)
(* a delete, the key of its row.                                           *)
Key(id) == [c \in AllCols |-> IF c = "id" THEN id ELSE None]

Request(op, pc, data, snap) == [op |-> op, pc |-> pc, data |-> data, snap |-> snap]

Add(req) == inflight (+) SetToBag({req})

Remove(req) == inflight (-) SetToBag({req})

Then(req, pc) == Remove(req) (+) SetToBag({Request(req.op, pc, NoData, Key(req.snap.id))})

----------------------------------------------------------------------------
(* The service.                                                            *)

Init ==
    /\ notes = {}
    /\ inserted = 0
    /\ issued = {}
    /\ gone = {}
    /\ reissued = {}
    /\ stale = FALSE
    /\ inflight = EmptyBag

(* create_note, lines 38-46: a body NoteCreate rejects is answered 422;    *)
(* otherwise the note is inserted under the key the table gives it and     *)
(* committed.                                                              *)
InsertCreate(data, today) ==
    /\ inserted < MaxNotes
    /\ BagCardinality(inflight) < MaxInflight
    /\ IF ~NoteCreate(data)
       THEN UNCHANGED <<notes, inserted, issued, reissued, inflight>>
       ELSE LET newId == PrimaryKey(notes)
                done == Insert(notes, NewNote(newId, data, today))
            IN  /\ notes' = done.notes
                /\ inserted' = IF done.ok THEN inserted + 1 ELSE inserted
                /\ issued' = IF done.ok THEN issued \cup {newId} ELSE issued
                /\ reissued' = IF done.ok /\ newId \in gone
                               THEN reissued \cup {newId} ELSE reissued
                /\ inflight' = IF done.ok
                               THEN Add(Request("create", "committed",
                                                NoData, Key(newId)))
                               ELSE inflight
    /\ UNCHANGED <<gone, stale>>

(* create_note, lines 47-48: refresh and answer 201, or 500 when the row   *)
(* is no longer there.                                                     *)
RefreshCreate(req) ==
    /\ req.op = "create" /\ req.pc = "committed"
    /\ Created(notes, req.snap.id).status \in {201, 500}
    /\ inflight' = Remove(req)
    /\ UNCHANGED <<notes, inserted, issued, gone, reissued, stale>>

(* get_note: one SELECT.                                                   *)
Get(id) ==
    /\ notes' = get_note(notes, id).notes
    /\ UNCHANGED <<inserted, issued, gone, reissued, stale, inflight>>

(* get_all_notes: one SELECT.                                              *)
List(q) ==
    /\ notes' = get_all_notes(notes, q).notes
    /\ UNCHANGED <<inserted, issued, gone, reissued, stale, inflight>>

(* update_note, lines 169-173: a body NoteUpdate rejects is answered 422;  *)
(* the row is loaded, or the answer is 404.                                *)
LoadUpdate(id, data) ==
    /\ BagCardinality(inflight) < MaxInflight
    /\ inflight' = IF NoteUpdate(data) /\ First(notes, id) # None
                   THEN Add(Request("update", "loaded", data,
                                    Val(First(notes, id))))
                   ELSE inflight
    /\ UNCHANGED <<notes, inserted, issued, gone, reissued, stale>>

(* update_note, lines 175-179: setattr and commit; an error answers 500.   *)
CommitUpdate(req) ==
    /\ req.op = "update" /\ req.pc = "loaded"
    /\ LET done == Flush(notes, req.snap, SetAttrs(req.snap, req.data))
       IN  /\ notes' = done.notes
           /\ inflight' = IF done.ok THEN Then(req, "committed") ELSE Remove(req)
           /\ stale' = (stale \/ (~done.ok /\ First(notes, req.snap.id) = None))
    /\ UNCHANGED <<inserted, issued, gone, reissued>>

(* update_note, lines 180-181: refresh and answer 200, or 500 when the row *)
(* is no longer there.                                                     *)
RefreshUpdate(req) ==
    /\ req.op = "update" /\ req.pc = "committed"
    /\ Refresh(notes, req.snap.id).status \in {200, 500}
    /\ inflight' = Remove(req)
    /\ UNCHANGED <<notes, inserted, issued, gone, reissued, stale>>

(* delete_note, lines 202-206: the row is loaded, or the answer is 404.    *)
LoadDelete(id) ==
    /\ BagCardinality(inflight) < MaxInflight
    /\ inflight' = IF First(notes, id) # None
                   THEN Add(Request("delete", "loaded", NoData,
                                    Key(Val(First(notes, id)).id)))
                   ELSE inflight
    /\ UNCHANGED <<notes, inserted, issued, gone, reissued, stale>>

(* delete_note, lines 208-210: DELETE by primary key, commit, answer 204   *)
(* (a DELETE that matches no row only warns).                              *)
CommitDelete(req) ==
    /\ req.op = "delete" /\ req.pc = "loaded"
    /\ notes' = DeleteRow(notes, req.snap.id)
    /\ gone' = gone \cup {req.snap.id}
    /\ reissued' = reissued \ {req.snap.id}
    /\ inflight' = Remove(req)
    /\ UNCHANGED <<inserted, issued, stale>>

Next ==
    \/ \E data \in SentCreates, today \in Dates : InsertCreate(data, today)
    \/ \E req \in BagToSet(inflight) : RefreshCreate(req)
    \/ \E id \in RequestIds : Get(id)
    \/ \E q \in SentQueries : List(q)
    \/ \E id \in RequestIds, data \in SentUpdates : LoadUpdate(id, data)
    \/ \E req \in BagToSet(inflight) : CommitUpdate(req)
    \/ \E req \in BagToSet(inflight) : RefreshUpdate(req)
    \/ \E id \in RequestIds : LoadDelete(id)
    \/ \E req \in BagToSet(inflight) : CommitDelete(req)

Spec == Init /\ [][Next]_vars

----------------------------------------------------------------------------
(* Properties of the handlers, in every state the service can reach.  A    *)
(* property of a handler's statement is stated of every request that can   *)
(* execute the statement in the state: the requests in flight, whose       *)
(* snapshot may be stale, and the requests that arrive now.                *)

Exists(id) == id \in Ids(notes)

Row(rows, id) == CHOOSE r \in rows : r.id = id

InFlight(op, pc) == {req \in BagToSet(inflight) : req.op = op /\ req.pc = pc}

Loaded(op) == InFlight(op, "loaded")

(* The service takes a request up when a worker is free.                   *)
Admits == BagCardinality(inflight) < MaxInflight

(* The update requests that load their row now, one per body of B.         *)
Arriving(B) ==
    IF Admits
    THEN {Request("update", "loaded", data, n) : data \in B, n \in notes}
    ELSE {}

ValidUpdates == {data \in UpdateInputs : NoteUpdate(data)}

(* What the commit of a loaded update does to the table now.               *)
Commit(req) == Flush(notes, req.snap, SetAttrs(req.snap, req.data))

(* C1: an Update of an existing note with an input that passes validation  *)
(* changes only the fields supplied: the fields not supplied and the id    *)
(* keep their value, an update of no field leaves the table as it was, and *)
(* no other row changes.                                                   *)
C1_UpdateFrame ==
    \A req \in Loaded("update") \cup Arriving(ValidUpdates) :
        LET id == req.snap.id
            done == Commit(req)
        IN  /\ {n \in done.notes : n.id # id} = {n \in notes : n.id # id}
            /\ Exists(id) =>
                   /\ Cardinality({n \in done.notes : n.id = id}) = 1
                   /\ \A c \in Cols \ req.data.set :
                          Row(done.notes, id)[c] = Row(notes, id)[c]
            /\ ~Exists(id) => done.notes = notes
            /\ req.data.set \cap Cols = {} => done.notes = notes

C1_Witness ==
    /\ Cardinality(notes) >= 2
    /\ \E req \in Loaded("update") :
           /\ Exists(req.snap.id)
           /\ req.snap # Row(notes, req.snap.id)
           /\ req.data.set = {"title"}
           /\ Commit(req).ok
           /\ Commit(req).notes # notes

Applied(data, row) == \A c \in data.set \cap Cols : row[c] = data.val[c]

(* C2: an Update of an existing id with any input the update shape accepts *)
(* (a field given as null included) applies the fields, persists and       *)
(* answers 200 with the updated note; an Update fails only with 404 or 422.*)
C2_UpdateSucceeds ==
    \A id \in RequestIds, data \in UpdateInputs :
        LET r == update_note(notes, id, data)
        IN  /\ r.status \in {200, 404, 422}
            /\ (Exists(id) /\ NoteUpdate(data)) =>
                   /\ r.status = 200
                   /\ r.body = {Row(r.notes, id)}
                   /\ Applied(data, Row(r.notes, id))

ValidNote(n) ==
    /\ n.title # None /\ Len(Val(n.title)) \in 1..MaxTitleLen
    /\ n.text # None /\ Len(Val(n.text)) >= 1
    /\ n.owner # None /\ Len(Val(n.owner)) \in 1..MaxOwnerLen
    /\ n.created_at # None /\ Val(n.created_at) \in Dates

(* C3: every stored note has a non-empty title of at most 200 characters,  *)
(* a non-empty text, a non-empty owner of at most 100 characters and a     *)
(* created_at that is a date; no commit of an update, a null among its     *)
(* fields or not, stores a note that has not.                              *)
C3_StoredNotesValid ==
    /\ \A n \in notes : ValidNote(n)
    /\ \A req \in Loaded("update") \cup Arriving(NullUpdates) :
           \A n \in Commit(req).notes : ValidNote(n)

C3_Witness ==
    /\ gone # {}
    /\ Admits
    /\ \E id \in Ids(notes) :
           /\ \E data \in NullUpdates : update_note(notes, id, data).status = 500
           /\ \E data \in InvalidUpdates : update_note(notes, id, data).status = 422
           /\ \E req \in InFlight("update", "committed") : req.snap.id = id

(* C4: ids are unique among the stored notes, no Update changes the id of  *)
(* a note, and the id a Create assigns was never assigned before, not even *)
(* to a note since deleted.                                                *)
C4_IdsUniqueNeverReused ==
    /\ \A n, m \in notes : n.id = m.id => n = m
    /\ Ids(notes) \subseteq issued
    /\ PrimaryKey(notes) \notin issued
    /\ \A req \in Loaded("update") \cup Arriving(ExtraIdUpdates) :
           /\ Ids(Commit(req).notes) = Ids(notes)
           /\ Commit(req).ok =>
                  \A n \in notes : SetAttrs(n, req.data).id = n.id

BoundaryCreate ==
    Body(StrCols, Some(Rep("a", MaxTitleLen)), Some(<<"b">>),
         Some(Rep("a", MaxOwnerLen)), None, 0)

(* C5: a valid Create answers 201 with a new id, and a Get of that id then *)
(* returns the title, text and owner of the input, with the created_at of  *)
(* the input when one was supplied and the date of the creation when not.  *)
C5_CreateThenGet ==
    /\ \A req \in InFlight("create", "committed") :
           /\ Created(notes, req.snap.id).status = 201
           /\ Ids(Created(notes, req.snap.id).body) = {req.snap.id}
    /\ \A data \in CreateInputs \cup {BoundaryCreate}, today \in Dates :
           (/\ \A f \in StrCols : f \in data.set /\ data.val[f] # None
            /\ Len(Val(data.val.title)) \in 1..MaxTitleLen
            /\ Len(Val(data.val.text)) >= 1
            /\ Len(Val(data.val.owner)) \in 1..MaxOwnerLen) =>
               LET newId == PrimaryKey(notes)
                   r == create_note(notes, newId, data, today)
                   g == get_note(r.notes, newId)
               IN  /\ r.status = 201
                   /\ Ids(r.body) = {newId}
                   /\ ~Exists(newId)
                   /\ g.status = 200
                   /\ g.body = r.body
                   /\ \A n \in g.body :
                          /\ n.title = data.val.title
                          /\ n.text = data.val.text
                          /\ n.owner = data.val.owner
                          /\ n.created_at =
                                 IF "created_at" \in data.set
                                    /\ data.val.created_at # None
                                 THEN data.val.created_at ELSE Some(today)

(* The List the specification describes: a filter that is supplied holds   *)
(* of the note, the search being a case-insensitive substring.             *)
Contains(s, sub) ==
    \E i \in 0..(Len(s) - Len(sub)) :
        \A j \in 1..Len(sub) : Lower(s[i + j]) = Lower(sub[j])

Matches(r, q) ==
    /\ q.owner # None => r.owner = q.owner
    /\ q.search # None =>
           \/ Contains(Val(r.title), Val(q.search))
           \/ Contains(Val(r.text), Val(q.search))
    /\ q.date_from # None => Val(q.date_from) <= Val(r.created_at)
    /\ q.date_to # None => Val(r.created_at) <= Val(q.date_to)

(* C6: for every table and every combination of the filters owner, search, *)
(* date_from and date_to, List answers 200 with exactly the stored notes   *)
(* that satisfy every supplied filter: owner equal, search a               *)
(* case-insensitive substring of the title or the text, created_at within  *)
(* the inclusive bounds; a filter not supplied does not constrain.         *)
C6_ListExactlyMatching ==
    \A q \in Queries :
        LET r == get_all_notes(notes, q)
        IN  /\ r.status = 200
            /\ r.notes = notes
            /\ r.body = {n \in notes : Matches(n, q)}

(* C7: once a Delete has answered 204 the note is gone for good: a Get, a  *)
(* valid Update or a Delete of its id that arrives afterwards answers 404, *)
(* no List returns it, and the commit of a Delete removes the row of its   *)
(* id and changes no other.                                                *)
C7_DeletedStaysGone ==
    /\ \A id \in gone :
           /\ ~Exists(id)
           /\ get_note(notes, id).status = 404
           /\ \A q \in Queries : id \notin Ids(get_all_notes(notes, q).body)
           /\ Admits =>
                  /\ delete_note(notes, id).status = 404
                  /\ \A data \in ValidUpdates :
                         update_note(notes, id, data).status = 404
    /\ \A req \in Loaded("delete") :
           /\ DeleteRow(notes, req.snap.id) \subseteq notes
           /\ \A n \in notes \ DeleteRow(notes, req.snap.id) : n.id = req.snap.id
           /\ get_note(DeleteRow(notes, req.snap.id), req.snap.id).status = 404
    /\ \A id \in Ids(notes) :
           Admits =>
               LET r == delete_note(notes, id)
               IN  /\ r.status = 204
                   /\ r.notes = notes \ {Row(notes, id)}
                   /\ get_note(r.notes, id).status = 404

(* C8: for an id that has no stored note, Get, Delete and an Update with   *)
(* valid input answer 404 and leave the table as it was.                   *)
C8_AbsentIdNotFound ==
    \A id \in RequestIds :
        ~Exists(id) =>
            /\ get_note(notes, id) = Result(notes, 404, {})
            /\ Admits =>
                   /\ delete_note(notes, id) = Result(notes, 404, {})
                   /\ \A data \in ValidUpdates :
                          update_note(notes, id, data) = Result(notes, 404, {})

C8_Witness ==
    /\ notes # {}
    /\ Admits
    /\ \E id \in RequestIds \ issued :
           /\ id > 0
           /\ \E data \in NullUpdates : update_note(notes, id, data).status = 404
           /\ get_note(notes, id).status = 404

TooShortOrLong(f, o) ==
    /\ o # None
    /\ \/ Len(Val(o)) = 0
       \/ f = "title" /\ Len(Val(o)) > MaxTitleLen
       \/ f = "owner" /\ Len(Val(o)) > MaxOwnerLen

BadCreates ==
    {data \in CreateInputs :
        \E f \in StrCols : f \notin data.set \/ TooShortOrLong(f, data.val[f])}

BadUpdates ==
    {data \in UpdateInputs :
        \E f \in StrCols \cap data.set : TooShortOrLong(f, data.val[f])}

(* C9: a Create or an Update whose input has an empty title, text or       *)
(* owner, a title of more than 200 or an owner of more than 100            *)
(* characters, or (Create) lacks a required field, answers 422 and leaves  *)
(* the table as it was, for an Update whether or not the id exists.        *)
C9_InvalidInputRejected ==
    Admits =>
        /\ \A data \in BadCreates, today \in Dates :
               create_note(notes, PrimaryKey(notes), data, today) = Result(notes, 422, {})
        /\ \A id \in RequestIds, data \in BadUpdates :
               update_note(notes, id, data) = Result(notes, 422, {})

C9_Witness ==
    /\ notes # {}
    /\ Admits
    /\ \E id \in Ids(notes), other \in RequestIds \ Ids(notes),
          data \in BadUpdates :
           /\ update_note(notes, id, data).status = 422
           /\ update_note(notes, other, data).status = 422
    /\ \E data \in BadCreates :
           create_note(notes, PrimaryKey(notes), data, 1).status = 422

(* The columns of the stored row that another request has changed since    *)
(* the request loaded it.                                                  *)
ChangedSince(req) ==
    {c \in Cols : Row(notes, req.snap.id)[c] # req.snap[c]}

====
